---- MODULE Spec2Model ----
(***************************************************************************)
(* Model of ext/groonga/rb-grn-geo-point.c: the two global class           *)
(* references, their initialization by rb_grn_init_geo_point, and the      *)
(* four constructor functions that forward a latitude/longitude pair to    *)
(* Groonga::TokyoGeoPoint.new or Groonga::WGS84GeoPoint.new.                *)
(*                                                                         *)
(* rb_const_get and rb_funcall run Ruby code (const_missing, autoload,     *)
(* initialize), so other Ruby threads can be scheduled between the steps   *)
(* of one C function; each function is therefore split at those calls.     *)
(***************************************************************************)
EXTENDS Integers, Sequences, FiniteSets, TLC

\* ------------------------------------------------------------------ bounds

\* Width of the C int of the model (the real one is 32).
IntBits == 3
\* Number of constructor calls of a behaviour, made by any threads: one call
\* may run alone, or start while another is still in progress.
NumCalls == 2

Pow2(n) == IF n <= 0 THEN 1 ELSE 2 ^ n

INT_MIN == -Pow2(IntBits - 1)
INT_MAX == Pow2(IntBits - 1) - 1
CInt == INT_MIN .. INT_MAX

Calls == 1 .. NumCalls

\* The widths of long a build can have: long as wide as int (ILP32, LLP64)
\* or twice as wide (LP64).
LongWidths == {IntBits, 2 * IntBits}

\* ------------------------------------------------------------- Ruby values

\* A zero-initialised VALUE is Qfalse.
Qfalse == "Qfalse"
\* The two classes lib/groonga/geo-point.rb defines in the Groonga module.
TokyoGeoPointClass == "Groonga::TokyoGeoPoint"
WGS84GeoPointClass == "Groonga::WGS84GeoPoint"

ConstantNames == {"TokyoGeoPoint", "WGS84GeoPoint"}
Undefined == "undefined"

\* The class a constant of the Groonga module names when it is defined.
DefinedAs(name) ==
  IF name = "TokyoGeoPoint" THEN TokyoGeoPointClass ELSE WGS84GeoPointClass

\* The states of the module passed to rb_grn_init_geo_point: each of the two
\* constants is defined (as its class) or absent.
Modules ==
  { m \in [ConstantNames -> {TokyoGeoPointClass, WGS84GeoPointClass, Undefined}] :
      \A n \in ConstantNames : m[n] \in {DefinedAs(n), Undefined} }

\* rb_const_get(mGrn, rb_intern(name)): the constant's value, or NameError
\* raised (a longjmp out of the calling C function).
rb_const_get(mGrn, name) ==
  IF mGrn[name] = Undefined
    THEN [raised |-> TRUE, value |-> Qfalse]
    ELSE [raised |-> FALSE, value |-> mGrn[name]]

\* FIXABLE(i): i fits a Fixnum, which has one bit less than a long.
FIXABLE(i, bits) ==
  /\ i >= -Pow2(bits - 2)
  /\ i <= Pow2(bits - 2) - 1

\* INT2FIX(i): ((VALUE)i << 1) | 1 in a VALUE of longBits bits.
INT2FIX(i, bits) ==
  [kind |-> "fixnum", bits |-> (2 * i + 1) % Pow2(bits)]

\* rb_int2big(i): a heap-allocated Integer holding i.
rb_int2big(i) == [kind |-> "bignum", value |-> i]

\* INT2NUM(i): a Fixnum when i is FIXABLE, a Bignum otherwise.
INT2NUM(i, bits) ==
  IF FIXABLE(i, bits) THEN INT2FIX(i, bits) ELSE rb_int2big(i)

\* FIX2LONG(v): the VALUE read as a signed long, shifted right by one.
FIX2LONG(v, bits) ==
  LET signed == IF v.bits >= Pow2(bits - 1)
                  THEN v.bits - Pow2(bits)
                  ELSE v.bits
  IN  (signed - 1) \div 2

\* NUM2LONG(v): the integer a Ruby Integer holds.
NUM2LONG(v, bits) ==
  IF v.kind = "fixnum" THEN FIX2LONG(v, bits) ELSE v.value

\* -------------------------------------------------------------------- state

VARIABLES
  rb_cGrnTokyoGeoPoint,   \* VALUE rb_cGrnTokyoGeoPoint
  rb_cGrnWGS84GeoPoint,   \* VALUE rb_cGrnWGS84GeoPoint
  heap,                   \* the GeoPoint objects allocated so far
  frame,                  \* each constructor call's position and locals
  init,                   \* the position of rb_grn_init_geo_point
  lookups,                \* who has called rb_const_get, and for what
  longBits,               \* the width of long of the build
  argPool                 \* the (latitude, longitude) pairs callers pass

vars == <<rb_cGrnTokyoGeoPoint, rb_cGrnWGS84GeoPoint, heap, frame, init,
          lookups, longBits, argPool>>

globals == <<rb_cGrnTokyoGeoPoint, rb_cGrnWGS84GeoPoint>>

NoValue == [kind |-> "none"]
NoResult == [kind |-> "none", ref |-> 0]
ObjectResult(i) == [kind |-> "object", ref |-> i]
NoMethodError == [kind |-> "NoMethodError", ref |-> 0]

\* A call not made yet.
IdleFrame ==
  [pc |-> "idle", fn |-> "none", la |-> 0, lo |-> 0,
   ready |-> FALSE, latitude |-> NoValue, longitude |-> NoValue,
   klass |-> Qfalse, result |-> NoResult]

NoModule == [n \in ConstantNames |-> Undefined]

\* No call of rb_grn_init_geo_point made yet.
IdleInit ==
  [pc |-> "idle", mGrn |-> NoModule, outcome |-> "none", completed |-> FALSE]

\* The pairs the calls of Spec pass: the extremes of int and a pair
\* that differs from them in both fields.
ArgSamples == {<<INT_MIN, INT_MAX>>, <<0, -1>>}

InitCommon ==
  /\ rb_cGrnTokyoGeoPoint = Qfalse
  /\ rb_cGrnWGS84GeoPoint = Qfalse
  /\ heap = <<>>
  /\ frame = [c \in Calls |-> IdleFrame]
  /\ init = IdleInit
  /\ lookups = {}
  /\ longBits \in LongWidths

Init ==
  /\ InitCommon
  /\ argPool = ArgSamples

\* One pair per behaviour, any pair of ints.
InitEveryPair ==
  /\ InitCommon
  /\ \E la \in CInt, lo \in CInt : argPool = {<<la, lo>>}

\* ------------------------------------------------- rb_grn_init_geo_point

\* The call: mGrn is the module as it is when initialization runs.
rb_grn_init_geo_point(mGrn) ==
  /\ init.pc = "idle"
  /\ init' = [init EXCEPT !.pc = "TokyoGeoPoint", !.mGrn = mGrn,
                          !.outcome = "running"]
  /\ UNCHANGED <<globals, heap, frame, lookups, longBits, argPool>>

\* NameError leaves the function; a normal return ends it.
Raised == [init EXCEPT !.pc = "idle", !.mGrn = NoModule, !.outcome = "NameError"]
Returned ==
  [init EXCEPT !.pc = "idle", !.mGrn = NoModule, !.outcome = "returned",
               !.completed = TRUE]

Looked(name) == lookups \cup {<<"rb_grn_init_geo_point", name>>}

\* Mutant: both constants are looked up before either global is assigned.
AtomicInitTokyo ==
  LET got1 == rb_const_get(init.mGrn, "TokyoGeoPoint")
      got2 == rb_const_get(init.mGrn, "WGS84GeoPoint")
  IN
  /\ init.pc = "TokyoGeoPoint"
  /\ lookups' = Looked("TokyoGeoPoint")
  /\ IF got1.raised \/ got2.raised
       THEN /\ init' = Raised
            /\ UNCHANGED rb_cGrnTokyoGeoPoint
       ELSE /\ init' = [init EXCEPT !.pc = "WGS84GeoPoint"]
            /\ rb_cGrnTokyoGeoPoint' = got1.value
  /\ UNCHANGED <<rb_cGrnWGS84GeoPoint, heap, frame, longBits, argPool>>

\* Mutant: the Tokyo global is assigned the constant WGS84GeoPoint.
SwappedInitTokyo ==
  LET got == rb_const_get(init.mGrn, "WGS84GeoPoint") IN
  /\ init.pc = "TokyoGeoPoint"
  /\ lookups' = Looked("TokyoGeoPoint")
  /\ IF got.raised
       THEN /\ init' = Raised
            /\ UNCHANGED rb_cGrnTokyoGeoPoint
       ELSE /\ init' = [init EXCEPT !.pc = "WGS84GeoPoint"]
            /\ rb_cGrnTokyoGeoPoint' = got.value
  /\ UNCHANGED <<rb_cGrnWGS84GeoPoint, heap, frame, longBits, argPool>>

\* rb_cGrnTokyoGeoPoint = rb_const_get(mGrn, rb_intern("TokyoGeoPoint"));
rb_grn_init_geo_point_Tokyo ==
  LET got == rb_const_get(init.mGrn, "TokyoGeoPoint") IN
  /\ init.pc = "TokyoGeoPoint"
  /\ lookups' = Looked("TokyoGeoPoint")
  /\ IF got.raised
       THEN /\ init' = Raised
            /\ UNCHANGED rb_cGrnTokyoGeoPoint
       ELSE /\ init' = [init EXCEPT !.pc = "WGS84GeoPoint"]
            /\ rb_cGrnTokyoGeoPoint' = got.value
  /\ UNCHANGED <<rb_cGrnWGS84GeoPoint, heap, frame, longBits, argPool>>

\* rb_cGrnWGS84GeoPoint = rb_const_get(mGrn, rb_intern("WGS84GeoPoint"));
rb_grn_init_geo_point_WGS84 ==
  LET got == rb_const_get(init.mGrn, "WGS84GeoPoint") IN
  /\ init.pc = "WGS84GeoPoint"
  /\ lookups' = Looked("WGS84GeoPoint")
  /\ IF got.raised
       THEN /\ init' = Raised
            /\ UNCHANGED rb_cGrnWGS84GeoPoint
       ELSE /\ init' = Returned
            /\ rb_cGrnWGS84GeoPoint' = got.value
  /\ UNCHANGED <<rb_cGrnTokyoGeoPoint, heap, frame, longBits, argPool>>

\* ------------------------------------------------------------ constructors

\* The global a constructor passes to rb_funcall as the receiver.
ReceiverOf(fn) ==
  IF fn = "tokyo" THEN rb_cGrnTokyoGeoPoint ELSE rb_cGrnWGS84GeoPoint

\* The frame of a call that has entered a _raw constructor with its two
\* VALUE arguments. la, lo and ready record the call for the properties: the
\* integers it was made with, and whether the global it will read was
\* assigned when it was made.
InRaw(fn, la, lo, latitude, longitude) ==
  [pc |-> "new_raw", fn |-> fn, la |-> la, lo |-> lo,
   ready |-> ReceiverOf(fn) # Qfalse,
   latitude |-> latitude, longitude |-> longitude,
   klass |-> Qfalse, result |-> NoResult]

\* Mutant: the two arguments are forwarded in the other order.
SwappedTokyoNew(c, la, lo) ==
  /\ frame[c].pc = "idle"
  /\ frame' = [frame EXCEPT ![c] =
                 InRaw("tokyo", la, lo,
                       INT2NUM(lo, longBits), INT2NUM(la, longBits))]
  /\ UNCHANGED <<globals, heap, init, lookups, longBits, argPool>>

\* rb_grn_tokyo_geo_point_new(latitude, longitude), up to its call of
\* rb_grn_tokyo_geo_point_new_raw.
rb_grn_tokyo_geo_point_new(c, la, lo) ==
  /\ frame[c].pc = "idle"
  /\ frame' = [frame EXCEPT ![c] =
                 InRaw("tokyo", la, lo,
                       INT2NUM(la, longBits), INT2NUM(lo, longBits))]
  /\ UNCHANGED <<globals, heap, init, lookups, longBits, argPool>>

\* Mutant: latitudes outside [-1, 1] are rejected with ArgumentError.
ValidatingWGS84New(c, la, lo) ==
  /\ frame[c].pc = "idle"
  /\ frame' = [frame EXCEPT ![c] =
                 IF la < -1 \/ la > 1
                   THEN [InRaw("wgs84", la, lo, NoValue, NoValue)
                           EXCEPT !.pc = "returned",
                                  !.result = [kind |-> "ArgumentError",
                                              ref |-> 0]]
                   ELSE InRaw("wgs84", la, lo,
                              INT2NUM(la, longBits), INT2NUM(lo, longBits))]
  /\ UNCHANGED <<globals, heap, init, lookups, longBits, argPool>>

\* rb_grn_wgs84_geo_point_new(latitude, longitude), up to its call of
\* rb_grn_wgs84_geo_point_new_raw.
rb_grn_wgs84_geo_point_new(c, la, lo) ==
  /\ frame[c].pc = "idle"
  /\ frame' = [frame EXCEPT ![c] =
                 InRaw("wgs84", la, lo,
                       INT2NUM(la, longBits), INT2NUM(lo, longBits))]
  /\ UNCHANGED <<globals, heap, init, lookups, longBits, argPool>>

\* Mutant: the arguments are kept in storage every call in progress shares.
SharedArgsTokyoNewRaw(c, la, lo) ==
  /\ frame[c].pc = "idle"
  /\ frame' = [d \in Calls |->
                 IF d = c
                   THEN InRaw("tokyo", la, lo,
                              INT2NUM(la, longBits), INT2NUM(lo, longBits))
                   ELSE IF frame[d].pc \in {"new_raw", "funcall"}
                     THEN [frame[d] EXCEPT
                             !.latitude = INT2NUM(la, longBits),
                             !.longitude = INT2NUM(lo, longBits)]
                     ELSE frame[d]]
  /\ UNCHANGED <<globals, heap, init, lookups, longBits, argPool>>

\* A direct call of rb_grn_tokyo_geo_point_new_raw with two Ruby Integers.
rb_grn_tokyo_geo_point_new_raw(c, la, lo) ==
  /\ frame[c].pc = "idle"
  /\ frame' = [frame EXCEPT ![c] =
                 InRaw("tokyo", la, lo,
                       INT2NUM(la, longBits), INT2NUM(lo, longBits))]
  /\ UNCHANGED <<globals, heap, init, lookups, longBits, argPool>>

\* A direct call of rb_grn_wgs84_geo_point_new_raw with two Ruby Integers.
rb_grn_wgs84_geo_point_new_raw(c, la, lo) ==
  /\ frame[c].pc = "idle"
  /\ frame' = [frame EXCEPT ![c] =
                 InRaw("wgs84", la, lo,
                       INT2NUM(la, longBits), INT2NUM(lo, longBits))]
  /\ UNCHANGED <<globals, heap, init, lookups, longBits, argPool>>

\* Mutant: an unassigned Tokyo reference is resolved by the constructor.
LazyTokyoReceiver(c) ==
  /\ frame[c].pc = "new_raw"
  /\ frame[c].fn = "tokyo"
  /\ rb_cGrnTokyoGeoPoint' = TokyoGeoPointClass
  /\ frame' = [frame EXCEPT ![c].pc = "funcall",
                            ![c].klass = TokyoGeoPointClass]
  /\ UNCHANGED <<rb_cGrnWGS84GeoPoint, heap, init, lookups, longBits, argPool>>

\* Mutant: the Tokyo constructor sends new to the WGS84 class.
WGS84AsTokyoReceiver(c) ==
  /\ frame[c].pc = "new_raw"
  /\ frame[c].fn = "tokyo"
  /\ frame' = [frame EXCEPT ![c].pc = "funcall",
                            ![c].klass = rb_cGrnWGS84GeoPoint]
  /\ UNCHANGED <<globals, heap, init, lookups, longBits, argPool>>

\* rb_funcall's receiver in rb_grn_tokyo_geo_point_new_raw: the read of
\* rb_cGrnTokyoGeoPoint.
rb_grn_tokyo_geo_point_new_raw_receiver(c) ==
  /\ frame[c].pc = "new_raw"
  /\ frame[c].fn = "tokyo"
  /\ frame' = [frame EXCEPT ![c].pc = "funcall",
                            ![c].klass = rb_cGrnTokyoGeoPoint]
  /\ UNCHANGED <<globals, heap, init, lookups, longBits, argPool>>

\* Mutant: an unassigned WGS84 reference is resolved by the constructor.
LazyWGS84Receiver(c) ==
  /\ frame[c].pc = "new_raw"
  /\ frame[c].fn = "wgs84"
  /\ rb_cGrnWGS84GeoPoint' = WGS84GeoPointClass
  /\ frame' = [frame EXCEPT ![c].pc = "funcall",
                            ![c].klass = WGS84GeoPointClass]
  /\ UNCHANGED <<rb_cGrnTokyoGeoPoint, heap, init, lookups, longBits, argPool>>

\* Mutant: the WGS84 constructor sends new to the Tokyo class.
TokyoAsWGS84Receiver(c) ==
  /\ frame[c].pc = "new_raw"
  /\ frame[c].fn = "wgs84"
  /\ frame' = [frame EXCEPT ![c].pc = "funcall",
                            ![c].klass = rb_cGrnTokyoGeoPoint]
  /\ UNCHANGED <<globals, heap, init, lookups, longBits, argPool>>

\* rb_funcall's receiver in rb_grn_wgs84_geo_point_new_raw: the read of
\* rb_cGrnWGS84GeoPoint.
rb_grn_wgs84_geo_point_new_raw_receiver(c) ==
  /\ frame[c].pc = "new_raw"
  /\ frame[c].fn = "wgs84"
  /\ frame' = [frame EXCEPT ![c].pc = "funcall",
                            ![c].klass = rb_cGrnWGS84GeoPoint]
  /\ UNCHANGED <<globals, heap, init, lookups, longBits, argPool>>

\* klass.new(latitude, longitude) of a GeoPoint class: a new object holding
\* the two arguments.
GeoPoint_new(klass, latitude, longitude) ==
  [klass |-> klass, latitude |-> latitude, longitude |-> longitude]

\* Mutant: one object is kept and given the fields of each new call.
ReusingFuncallNew(c) ==
  /\ frame[c].pc = "funcall"
  /\ frame[c].klass # Qfalse
  /\ LET made == GeoPoint_new(frame[c].klass, frame[c].latitude,
                              frame[c].longitude)
     IN  heap' = IF heap = <<>> THEN <<made>> ELSE [heap EXCEPT ![1] = made]
  /\ frame' = [frame EXCEPT ![c].pc = "returned",
                            ![c].result = ObjectResult(1)]
  /\ UNCHANGED <<globals, init, lookups, longBits, argPool>>

\* rb_funcall(klass, rb_intern("new"), 2, latitude, longitude) and the
\* return of its result: false has no method new, so NoMethodError is
\* raised; a class allocates an object.
rb_funcall_new(c) ==
  /\ frame[c].pc = "funcall"
  /\ IF frame[c].klass = Qfalse
       THEN /\ frame' = [frame EXCEPT ![c].pc = "returned",
                                      ![c].result = NoMethodError]
            /\ UNCHANGED heap
       ELSE /\ heap' = Append(heap, GeoPoint_new(frame[c].klass,
                                frame[c].latitude, frame[c].longitude))
            /\ frame' = [frame EXCEPT ![c].pc = "returned",
                           ![c].result = ObjectResult(Len(heap) + 1)]
  /\ UNCHANGED <<globals, init, lookups, longBits, argPool>>

\* ------------------------------------------------------------ specification

CallStep(c) ==
  \/ \E p \in argPool : rb_grn_tokyo_geo_point_new(c, p[1], p[2])
  \/ \E p \in argPool : rb_grn_wgs84_geo_point_new(c, p[1], p[2])
  \/ \E p \in argPool : rb_grn_tokyo_geo_point_new_raw(c, p[1], p[2])
  \/ \E p \in argPool : rb_grn_wgs84_geo_point_new_raw(c, p[1], p[2])
  \/ rb_grn_tokyo_geo_point_new_raw_receiver(c)
  \/ rb_grn_wgs84_geo_point_new_raw_receiver(c)
  \/ rb_funcall_new(c)

InitStep ==
  \/ \E mGrn \in Modules : rb_grn_init_geo_point(mGrn)
  \/ rb_grn_init_geo_point_Tokyo
  \/ rb_grn_init_geo_point_WGS84

Next ==
  \/ InitStep
  \/ \E c \in Calls : CallStep(c)

\* Calls made by any threads, with the sample pairs.
Spec == Init /\ [][Next]_vars

NextEveryPair ==
  \/ InitStep
  \/ CallStep(1)

\* One call, with any pair of ints.
SpecEveryPair == InitEveryPair /\ [][NextEveryPair]_vars

\* ------------------------------------------------------------- observations

\* The call has returned a GeoPoint, and the object it returned.
Produced(c) == frame[c].pc = "returned" /\ frame[c].result.kind = "object"
PointOf(c) == heap[frame[c].result.ref]

\* GeoPoint#latitude and GeoPoint#longitude, as integers.
latitude(o) == NUM2LONG(o.latitude, longBits)
longitude(o) == NUM2LONG(o.longitude, longBits)

\* The datum of a point is the class it is an instance of.
datum(o) == IF o.klass = TokyoGeoPointClass THEN "Tokyo" ELSE "WGS84"

\* The datum and the class each constructor is for.
DatumFor(fn) == IF fn = "tokyo" THEN "Tokyo" ELSE "WGS84"
ClassFor(fn) == IF fn = "tokyo" THEN TokyoGeoPointClass ELSE WGS84GeoPointClass
ConstantFor(klass) ==
  IF klass = TokyoGeoPointClass THEN "TokyoGeoPoint" ELSE "WGS84GeoPoint"

\* GeoPoint#==: the same datum and Integer-equal fields.
GeoPointEq(a, b) ==
  /\ a.klass = b.klass
  /\ a.latitude = b.latitude
  /\ a.longitude = b.longitude

\* The point a constructor returns when nothing runs between its steps, once
\* its class reference is assigned.
Alone(fn, la, lo) ==
  GeoPoint_new(ClassFor(fn), INT2NUM(la, longBits), INT2NUM(lo, longBits))

\* ------------------------------------------------------------------- claims

\* C1: for every pair of ints (la, lo), the extremes included, the point a
\* constructor returns has latitude la and longitude lo: the arguments are
\* not swapped, truncated or changed.
C1_FieldsForwarded ==
  \A c \in Calls :
    Produced(c) =>
      /\ latitude(PointOf(c)) = frame[c].la
      /\ longitude(PointOf(c)) = frame[c].lo

\* The Tokyo constructor has returned a point for (INT_MIN, INT_MAX) on a
\* build where neither fits a Fixnum.
C1_Witness ==
  /\ Produced(1)
  /\ frame[1].fn = "tokyo"
  /\ frame[1].la = INT_MIN
  /\ frame[1].lo = INT_MAX
  /\ longBits = IntBits
  /\ PointOf(1).latitude.kind = "bignum"

\* C2: every point the Tokyo constructor returns has datum Tokyo, and every
\* point the WGS84 constructor returns has datum WGS84.
C2_DatumOfConstructor ==
  \A c \in Calls :
    Produced(c) => datum(PointOf(c)) = DatumFor(frame[c].fn)

\* A Tokyo point and a WGS84 point have both been returned.
C2_Witness ==
  \E c, d \in Calls :
    /\ Produced(c) /\ frame[c].fn = "tokyo"
    /\ Produced(d) /\ frame[d].fn = "wgs84"
    /\ datum(PointOf(c)) # datum(PointOf(d))

\* C3: two returned points are equal exactly when latitude, longitude and
\* datum are equal: the same constructor with the same arguments gives equal
\* points that are distinct objects, and the Tokyo and the WGS84 point of the
\* same arguments are unequal.
C3_ValueEquality ==
  \A c, d \in Calls :
    (c # d /\ Produced(c) /\ Produced(d)) =>
      LET a == PointOf(c)
          b == PointOf(d)
          sameArgs == frame[c].la = frame[d].la /\ frame[c].lo = frame[d].lo
      IN
      /\ GeoPointEq(a, b) <=>
           /\ latitude(a) = latitude(b)
           /\ longitude(a) = longitude(b)
           /\ datum(a) = datum(b)
      /\ (sameArgs /\ frame[c].fn = frame[d].fn) =>
           (GeoPointEq(a, b) /\ frame[c].result.ref # frame[d].result.ref)
      /\ (sameArgs /\ frame[c].fn # frame[d].fn) => ~GeoPointEq(a, b)

\* Two calls of one constructor with the same arguments have returned two
\* objects that compare equal.
C3_Witness ==
  /\ Produced(1) /\ Produced(2)
  /\ frame[1].fn = frame[2].fn
  /\ frame[1].la = frame[2].la /\ frame[1].lo = frame[2].lo
  /\ frame[1].result.ref # frame[2].result.ref
  /\ GeoPointEq(PointOf(1), PointOf(2))

\* C4 as stated: every constructor call returns a point and never fails.
C4_AlwaysAPoint ==
  \A c \in Calls :
    frame[c].pc = "returned" => frame[c].result.kind = "object"

\* C4, amended: a constructor called once its class reference is assigned
\* returns a point for every pair of ints; no value of latitude or longitude
\* is rejected.
C4_TotalOnceAssigned ==
  \A c \in Calls :
    (frame[c].pc = "returned" /\ frame[c].ready) =>
      /\ frame[c].result.kind = "object"
      /\ frame[c].result.ref \in DOMAIN heap

\* The WGS84 constructor, called after its reference was assigned, has
\* returned a point for a latitude of INT_MIN.
C4_Witness ==
  /\ frame[1].pc = "returned"
  /\ frame[1].ready
  /\ frame[1].fn = "wgs84"
  /\ frame[1].la = INT_MIN
  /\ Produced(1)

\* C5: no step changes an object already allocated: every point keeps its
\* latitude, longitude and datum through later constructions and calls of
\* rb_grn_init_geo_point.
C5_PointsNeverChange ==
  [][\A i \in DOMAIN heap : i \in DOMAIN heap' /\ heap'[i] = heap[i]]_vars

\* Two points exist while a call of rb_grn_init_geo_point that follows a
\* completed one is in progress.
C5_Witness ==
  /\ Len(heap) = 2
  /\ init.completed
  /\ init.pc = "WGS84GeoPoint"

\* C6: a step of a constructor leaves both global class references
\* unchanged; they change only in a step of rb_grn_init_geo_point.
C6_ConstructionLeavesGlobals ==
  [][/\ (frame' # frame) => (globals' = globals)
     /\ (globals' # globals) => (init.pc # "idle" /\ init' # init)]_vars

\* A point has been returned and both references are assigned.
C6_Witness ==
  /\ \E c \in Calls : Produced(c)
  /\ rb_cGrnTokyoGeoPoint = TokyoGeoPointClass
  /\ rb_cGrnWGS84GeoPoint = WGS84GeoPointClass

\* C7: one completed call of rb_grn_init_geo_point has resolved both
\* references; a constructor sends new to the class initialization resolved
\* for it; only rb_grn_init_geo_point looks constants up; the Tokyo and the
\* WGS84 reference are never exchanged.
C7_ResolvedOnceAndReused ==
  /\ init.completed =>
       /\ rb_cGrnTokyoGeoPoint = TokyoGeoPointClass
       /\ rb_cGrnWGS84GeoPoint = WGS84GeoPointClass
  /\ \A c \in Calls :
       (frame[c].pc \in {"funcall", "returned"} /\ frame[c].klass # Qfalse) =>
         /\ frame[c].klass = ReceiverOf(frame[c].fn)
         /\ frame[c].klass = ClassFor(frame[c].fn)
         /\ <<"rb_grn_init_geo_point", ConstantFor(frame[c].klass)>> \in lookups
  /\ lookups \subseteq {"rb_grn_init_geo_point"} \X ConstantNames
  /\ rb_cGrnTokyoGeoPoint \in {Qfalse, TokyoGeoPointClass}
  /\ rb_cGrnWGS84GeoPoint \in {Qfalse, WGS84GeoPointClass}

\* After a completed initialization, a call made with its reference assigned
\* has returned a WGS84 point.
C7_Witness ==
  /\ init.completed
  /\ \E c \in Calls :
       Produced(c) /\ frame[c].ready /\ frame[c].fn = "wgs84"

\* C8: whatever runs between the steps of a constructor called after its
\* reference was assigned, the reference keeps its value and the call returns
\* the point it returns when run alone.
C8_InterleavingFree ==
  \A c \in Calls :
    frame[c].ready =>
      /\ ReceiverOf(frame[c].fn) = ClassFor(frame[c].fn)
      /\ frame[c].pc = "returned" =>
           /\ Produced(c)
           /\ PointOf(c) = Alone(frame[c].fn, frame[c].la, frame[c].lo)

\* One call has returned its point while another, of the other constructor
\* and with other arguments, is between its read of the global and new.
C8_Witness ==
  /\ Produced(1) /\ frame[1].ready
  /\ frame[2].pc = "funcall" /\ frame[2].ready
  /\ frame[2].fn # frame[1].fn
  /\ frame[2].la # frame[1].la

\* C9 as stated: a point is returned only after a call of
\* rb_grn_init_geo_point has completed (looked at when no call of it is in
\* progress).
C9_OnlyAfterCompletedInit ==
  \A c \in Calls :
    (Produced(c) /\ init.pc = "idle") => init.completed

\* C9, amended: a constructor that reads its reference unassigned raises
\* NoMethodError and returns no point; the references are unassigned until
\* rb_grn_init_geo_point looks them up; a point of a class exists only when
\* rb_grn_init_geo_point has assigned the reference to that class.
C9_OnlyAfterAssignment ==
  /\ \A c \in Calls :
       frame[c].pc = "returned" =>
         (frame[c].klass = Qfalse <=> frame[c].result = NoMethodError)
  /\ <<"rb_grn_init_geo_point", "TokyoGeoPoint">> \notin lookups =>
       rb_cGrnTokyoGeoPoint = Qfalse
  /\ <<"rb_grn_init_geo_point", "WGS84GeoPoint">> \notin lookups =>
       rb_cGrnWGS84GeoPoint = Qfalse
  /\ \A i \in DOMAIN heap :
       /\ heap[i].klass \in {rb_cGrnTokyoGeoPoint, rb_cGrnWGS84GeoPoint}
       /\ <<"rb_grn_init_geo_point", ConstantFor(heap[i].klass)>> \in lookups

\* No initialization has completed: the last one raised NameError after
\* assigning the Tokyo reference. The Tokyo constructor has returned a point
\* and the WGS84 constructor has raised NoMethodError.
C9_Witness ==
  /\ ~init.completed
  /\ init.outcome = "NameError"
  /\ \E c, d \in Calls :
       /\ Produced(c) /\ frame[c].fn = "tokyo"
       /\ frame[d].pc = "returned" /\ frame[d].fn = "wgs84"
       /\ frame[d].result = NoMethodError

\* C10: rb_grn_init_geo_point looks TokyoGeoPoint up first and WGS84GeoPoint
\* second. A failed first lookup assigns neither reference; a failed second
\* lookup leaves the Tokyo reference assigned and the WGS84 reference with
\* the value it had; either way NameError leaves the function at once.
C10_InitNotAtomic ==
  [][(init' # init /\ init.pc # "idle") =>
       LET tokyo == init.mGrn["TokyoGeoPoint"]
           wgs84 == init.mGrn["WGS84GeoPoint"]
       IN
       /\ (init.pc = "TokyoGeoPoint" /\ tokyo = Undefined) =>
            /\ globals' = globals
            /\ init'.pc = "idle" /\ init'.outcome = "NameError"
       /\ (init.pc = "TokyoGeoPoint" /\ tokyo # Undefined) =>
            /\ rb_cGrnTokyoGeoPoint' = tokyo
            /\ rb_cGrnWGS84GeoPoint' = rb_cGrnWGS84GeoPoint
            /\ init'.pc = "WGS84GeoPoint"
       /\ (init.pc = "WGS84GeoPoint" /\ wgs84 = Undefined) =>
            /\ rb_cGrnTokyoGeoPoint' = tokyo
            /\ rb_cGrnTokyoGeoPoint = tokyo
            /\ rb_cGrnWGS84GeoPoint' = rb_cGrnWGS84GeoPoint
            /\ init'.pc = "idle" /\ init'.outcome = "NameError"
       /\ (init.pc = "WGS84GeoPoint" /\ wgs84 # Undefined) =>
            /\ rb_cGrnWGS84GeoPoint' = wgs84
            /\ init'.pc = "idle" /\ init'.outcome = "returned"]_vars

\* The first call of rb_grn_init_geo_point has raised NameError at its
\* second lookup: the Tokyo reference is assigned, the WGS84 one is not.
C10_Witness ==
  /\ init.pc = "idle"
  /\ init.outcome = "NameError"
  /\ rb_cGrnTokyoGeoPoint = TokyoGeoPointClass
  /\ rb_cGrnWGS84GeoPoint = Qfalse

====
